---- MODULE Spec2Model ----
(***************************************************************************)
(* hsc-store: a reactive state cell (createStore) wrapped by middleware    *)
(* (computedMiddleware, timeTravelMiddleware) and by the persistence       *)
(* controller (createPersistStore).                                        *)
(*                                                                         *)
(* JavaScript values are encoded as integers: n >= 0 is the number n (or   *)
(* an opaque primitive such as a string, numbered), and the negative codes *)
(* below stand for the values Object.is and JSON treat specially.          *)
(***************************************************************************)
EXTENDS Integers, Sequences, FiniteSets, TLC

VARIABLES
  cfg,              \* options and creator the store was constructed with
  state,            \* createStore: let state
  ref,              \* identity of the object `state` points to
  listeners,        \* createStore: listeners (a Set, in insertion order)
  history,          \* timeTravelMiddleware: history (entries' state)
  currentPointer,   \* timeTravelMiddleware: currentPointer
  isTimeTraveling,  \* timeTravelMiddleware: isTimeTraveling
  cache,            \* computedMiddleware: cache
  isUpToDate,       \* computedMiddleware: isUpToDate
  storage,          \* the storage backend: key -> item
  isHydrated,       \* createPersistStore: storeState.isHydrated
  isMounted,        \* createPersistStore: storeState.isMounted
  timers,           \* pending setTimeout(0) callbacks of the setState wrapper
  peer,             \* a second store instance created on the same storage
  calls,            \* observation: listener invocations of the last operation
  effects,          \* observation: what the last operation did inside, in order
  cbLog,            \* observation: onRehydrateStorage invocations of the last operation
  errLog,           \* observation: onError invocations of the last operation
  result,           \* observation: what the last operation returned
  last,             \* observation: the last operation and its arguments
  found,            \* observation: the item under the store's name at construction
  written           \* observation: snapshots after each step of a scripted run

vars == <<cfg, state, ref, listeners, history, currentPointer, isTimeTraveling,
          cache, isUpToDate, storage, isHydrated, isMounted, timers, peer,
          calls, effects, cbLog, errLog, result, last, found, written>>

----------------------------------------------------------------------------
(* Bounds of the model *)

MaxCount == 2      \* the "increase" updater is applied while count < MaxCount
MaxHist == 3       \* maxHistory is drawn from 1..MaxHist
MaxTimers == 1     \* pending backup timers
NumRefs == 2       \* object identities are reused cyclically

(* Value codes *)

NaN == -1
NegZero == -2
Undefined == -3
Null == -4
Fn == -5
Str == -6          \* a string, where the state holds numbers

NAME == "counter-storage"
PERSIST == "persist"       \* the listener createPersistStore subscribes
READER == "reader"         \* a listener that reads a computed value and the history
THROWER == "thrower"       \* a listener that throws
WATCHER == "watcher"       \* a listener that reads persist.hasHydrated()

EmptyObj == [k \in {} |-> 0]

----------------------------------------------------------------------------
(* Object helpers *)

\* ===: NaN differs from itself, +0 equals -0
StrictEquals(a, b) == a # NaN /\ (a = b \/ {a, b} = {0, NegZero})

\* Object.is: NaN equals NaN, +0 differs from -0; codes are distinct integers
ObjectIs(a, b) == a = b

\* obj[k]: a missing property reads as undefined
Get(obj, k) == IF k \in DOMAIN obj THEN obj[k] ELSE Undefined

\* { ...a, ...b }
Merge(a, b) == [k \in DOMAIN a \cup DOMAIN b |-> IF k \in DOMAIN b THEN b[k] ELSE a[k]]

\* Updater functions given to set / setState by the application
Resolve(payload, s) ==
  IF payload.kind = "partial" THEN payload.partial
  ELSE IF payload.name = "increase" THEN [k \in {"count"} |-> s.count + 1]
  ELSE [k \in {"count"} |-> s.count]

NewRef(r) == (r + 1) % NumRefs

----------------------------------------------------------------------------
(* The observable world: every field of the store, as one record, so that   *)
(* the write path can be composed the way the middleware compose it.        *)

World ==
  [state |-> state, ref |-> ref, listeners |-> listeners,
   history |-> history, currentPointer |-> currentPointer,
   isTimeTraveling |-> isTimeTraveling,
   cache |-> cache, isUpToDate |-> isUpToDate,
   storage |-> storage, isHydrated |-> isHydrated, isMounted |-> isMounted,
   timers |-> timers,
   name |-> cfg.name, peer |-> peer,
   calls |-> calls, effects |-> effects, cbLog |-> cbLog, errLog |-> errLog,
   result |-> result]

\* One internal effect of an operation: "assign" (the cell replaced its snapshot),
\* "compute" (a computed function ran), "splice" and "shift" (history),
\* "getItem", "setItem", "removeItem" (storage)
Effect(e, k) == [e |-> e, k |-> k]

\* What an operation returned
Void == [kind |-> "void", v |-> 0]
Bool(b) == [kind |-> "bool", v |-> b]
Value(x) == [kind |-> "value", v |-> x]
Rejected == [kind |-> "rejected", v |-> 0]
Thrown == [kind |-> "thrown", v |-> 0]

\* The world as an operation finds it: nothing observed yet
Begin ==
  [World EXCEPT !.calls = <<>>, !.effects = <<>>, !.cbLog = <<>>, !.errLog = <<>>,
                !.result = Void]

\* what one store instance keeps in its closures
Instance(w) ==
  [name |-> w.name, state |-> w.state, ref |-> w.ref, listeners |-> w.listeners,
   history |-> w.history, currentPointer |-> w.currentPointer,
   isTimeTraveling |-> w.isTimeTraveling,
   cache |-> w.cache, isUpToDate |-> w.isUpToDate,
   isHydrated |-> w.isHydrated, isMounted |-> w.isMounted, timers |-> w.timers]

\* the world seen from the other instance: the closures change places, the
\* storage backend is the one both were given
Swap(w) ==
  [w EXCEPT !.name = w.peer.name, !.state = w.peer.state, !.ref = w.peer.ref,
            !.listeners = w.peer.listeners,
            !.history = w.peer.history, !.currentPointer = w.peer.currentPointer,
            !.isTimeTraveling = w.peer.isTimeTraveling,
            !.cache = w.peer.cache, !.isUpToDate = w.peer.isUpToDate,
            !.isHydrated = w.peer.isHydrated, !.isMounted = w.peer.isMounted,
            !.timers = w.peer.timers,
            !.peer = Instance(w)]

----------------------------------------------------------------------------
(* Persistence: partialize, JSON, persistState *)

UnderscoreKeys == {"_timeTravel", "_computed", "_validation"}

\* default partialize: drop keys starting with "_" and function values
Partialize(s) ==
  [k \in {j \in DOMAIN s : j \notin UnderscoreKeys /\ s[j] # Fn} |-> s[k]]

\* JSON.stringify of one value: NaN becomes null, -0 becomes 0
JsonValue(v) == IF v = NaN THEN Null ELSE IF v = NegZero THEN 0 ELSE v

\* JSON.stringify({ state, version }): undefined and function members are dropped
JsonStringify(obj, version) ==
  [kind |-> "json",
   state |-> [k \in {j \in DOMAIN obj : obj[j] # Undefined /\ obj[j] # Fn} |-> JsonValue(obj[k])],
   version |-> version]

NoItem == [kind |-> "none"]
Garbage == [kind |-> "garbage"]

\* a persistState without its try/catch
PersistStateUncaught(w, s) ==
  IF ~w.isMounted THEN w
  ELSE IF cfg.faults \cap {"partialize", "stringify", "setItem"} # {}
  THEN [w EXCEPT !.result = Thrown]
  ELSE [w EXCEPT !.storage = [@ EXCEPT ![w.name] = JsonStringify(Partialize(s), cfg.version)],
                 !.effects = Append(@, Effect("setItem", w.name))]

\* persistState(state): partialize, JSON.stringify and setItem run inside a try
PersistState(w, s) ==
  IF ~w.isMounted THEN w
  ELSE IF cfg.faults \cap {"partialize", "stringify", "setItem"} # {}
  THEN [w EXCEPT !.effects = Append(@, Effect("caught", w.name))]
  ELSE [w EXCEPT !.storage = [@ EXCEPT ![w.name] = JsonStringify(Partialize(s), cfg.version)],
                 !.effects = Append(@, Effect("setItem", w.name))]

----------------------------------------------------------------------------
(* createStore: the state cell *)

RECURSIVE Compute(_, _)

\* what a listener observed: the value of a computed key read through
\* getStateWithComputed(), and _timeTravel's history and current index
Saw(key, v, w) ==
  [e |-> "saw", k |-> key, v |-> v, history |-> w.history,
   currentPointer |-> w.currentPointer]

\* the listener READER: reads the first computed key and the history
ReaderListener(w) ==
  LET r == Compute(w, cfg.computed[1])
  IN  [r.w EXCEPT !.effects = Append(@, Saw(cfg.computed[1], r.v, r.w))]

\* a store whose subscription does not save
InvokeListenerNoSave(w, l) ==
  [w EXCEPT !.calls = Append(@, [listener |-> l, state |-> w.state])]

\* one listener of the set is called with the new state
InvokeListener(w, l) ==
  LET w1 == [w EXCEPT !.calls = Append(@, [listener |-> l, state |-> w.state])]
  IN  IF l = PERSIST
      THEN (IF w1.isMounted THEN PersistState(w1, w1.state) ELSE w1)
      ELSE IF l = READER THEN ReaderListener(w1)
      ELSE IF l = THROWER THEN [w1 EXCEPT !.result = Thrown]
      ELSE IF l = WATCHER
      THEN [w1 EXCEPT !.effects =
              Append(@, Effect("hasHydrated", IF w1.isHydrated THEN "true" ELSE "false"))]
      ELSE w1

RECURSIVE NotifyFrom(_, _)
NotifyFrom(w, i) ==
  \* forEach ends at the last listener, or at the first one that throws
  IF i > Len(w.listeners) \/ w.result = Thrown THEN w
  ELSE NotifyFrom(InvokeListener(w, w.listeners[i]), i + 1)

\* a loop that walks the listeners from the last registered to the first
RECURSIVE NotifyDown(_, _)
NotifyDown(w, i) ==
  IF i < 1 THEN w ELSE NotifyDown(InvokeListener(w, w.listeners[i]), i - 1)

NotifyReversed(w) == NotifyDown(w, Len(w.listeners))

\* listeners.forEach((listener) => listener(state))
Notify(w) == NotifyFrom(w, 1)

\* the hasChanged loop of setState
HasChanged(s, partialState) ==
  \E k \in DOMAIN partialState : ~ObjectIs(Get(s, k), partialState[k])

\* setState(partial | updater)
CellSetState(w, payload) ==
  LET partialState == Resolve(payload, w.state)
  IN  IF HasChanged(w.state, partialState)
      THEN Notify([w EXCEPT !.state = Merge(w.state, partialState),
                            !.ref = NewRef(w.ref),
                            !.effects = Append(@, Effect("assign", ""))])
      ELSE w

\* subscribe(listener): Set.add keeps the first insertion
SubscribeListener(ls, l) ==
  IF \E i \in 1..Len(ls) : ls[i] = l THEN ls ELSE Append(ls, l)

\* a delete that drops the listener registered last, whichever it is
DeleteListenerLast(ls, l) ==
  IF Len(ls) = 0 THEN ls ELSE SubSeq(ls, 1, Len(ls) - 1)

\* the returned unsubscribe: Set.delete
DeleteListener(ls, l) == SelectSeq(ls, LAMBDA x : x # l)

----------------------------------------------------------------------------
(* The write path through the middleware list.  createStore applies the    *)
(* list from its last element to its first, so element i receives as `set` *)
(* the wrapper of element i-1, element 1 receives the cell's setState, and *)
(* the creator receives the wrapper of the last element.                   *)

\* Besides timeTravel and computed, the list may hold middleware of the
\* application: "broken" throws when it is applied to a creator, "faulty"
\* returns a creator that throws when it is invoked.

\* a loop that gives up on the rest of the list at the first throw
RECURSIVE ApplyFromAbort(_, _, _)
ApplyFromAbort(list, i, chain) ==
  IF i < 1 THEN chain
  ELSE IF list[i] = "broken" THEN chain
  ELSE ApplyFromAbort(list, i - 1, <<list[i]>> \o chain)

\* createStore: for (i = middleware.length - 1; i >= 0; i--) with its try/catch;
\* chain lists the wrappers around the creator so far, the outermost first
RECURSIVE ApplyFrom(_, _, _)
ApplyFrom(list, i, chain) ==
  IF i < 1 THEN chain
  ELSE IF list[i] = "broken" THEN ApplyFrom(list, i - 1, chain)
  ELSE ApplyFrom(list, i - 1, <<list[i]>> \o chain)

\* createStore: finalCreator after the loop
FinalCreator(list) == ApplyFrom(list, Len(list), <<>>)

\* an initialisation that leaves out the middleware that threw and keeps the rest
AppliedWithoutFaulty(list) ==
  SelectSeq(FinalCreator(list), LAMBDA m : m # "faulty")

\* createStore: the wrappers around the creator whose result became the
\* state: those of finalCreator, or none when finalCreator threw and the
\* base creator was called with the cell's setState instead
Applied(list) ==
  IF \E n \in 1..Len(FinalCreator(list)) : FinalCreator(list)[n] = "faulty"
  THEN <<>>
  ELSE FinalCreator(list)

\* the fields the applied middleware add to what the creator returns
AddedFields(applied) ==
  UNION {IF applied[n] = "timeTravel" THEN {"_timeTravel"}
         ELSE IF applied[n] = "computed" THEN {"_computed", "getStateWithComputed"}
         ELSE IF applied[n] = "schema" THEN {"_validation"}
         ELSE {} : n \in 1..Len(applied)}

\* Object.keys(getState())
StoreFields(w) == DOMAIN w.state \cup AddedFields(cfg.applied)

RECURSIVE SetFor(_, _, _)

\* typeof value (Array.isArray is false for every value of the model)
TypeOf(v) ==
  IF v = Undefined THEN "undefined"
  ELSE IF v = Null THEN "object"
  ELSE IF v = Fn THEN "function"
  ELSE IF v = Str THEN "string"
  ELSE "number"

\* the application's validate function: (value) => value >= 0 && value <= 120;
\* the comparisons convert null to 0 and undefined, functions and strings
\* that are no numerals to NaN
ValidateFn(name, v) == v = NegZero \/ v = Null \/ (v >= 0 /\ v <= 120)

\* schemaMiddleware: validateState, the errors one schema entry contributes
RuleErrors(s, rules) ==
  LET value == Get(s, rules.key)
      nullish == value = Undefined \/ value = Null
  IN  IF rules.required /\ nullish
      THEN <<[key |-> rules.key, message |-> "required"]>>
      ELSE IF rules.type # "" /\ ~nullish /\ TypeOf(value) # rules.type
      THEN <<[key |-> rules.key, message |-> "type"]>>
      ELSE IF rules.validate # "" /\ ~nullish /\ ~ValidateFn(rules.validate, value)
      THEN <<[key |-> rules.key, message |-> "validate"]>>
      ELSE <<>>

RECURSIVE ValidateFrom(_, _)
\* Object.entries(schema).forEach from entry n on
ValidateFrom(s, n) ==
  IF n > Len(cfg.schema) THEN <<>>
  ELSE RuleErrors(s, cfg.schema[n]) \o ValidateFrom(s, n + 1)

\* schemaMiddleware: validateState(state)
ValidateState(s) == ValidateFrom(s, 1)

\* if (onError) onError(errors)
OnError(w, errors) ==
  IF cfg.onError THEN [w EXCEPT !.errLog = Append(@, errors)] ELSE w

\* schemaMiddleware: validateAndSet, the set it hands to the creator
ValidateAndSet(i, w, payload) ==
  LET nextState == Merge(w.state, Resolve(payload, w.state))
      errors == ValidateState(nextState)
      w1 == IF Len(errors) > 0 THEN OnError(w, errors) ELSE w
  IN  IF Len(errors) > 0 /\ cfg.strict THEN w1
      ELSE SetFor(i - 1, w1, payload)

\* a recording set that ignores the enabled option
ForwardsOnlyTravelling(w) == w.isTimeTraveling

\* timeTravelMiddleware: !enabled || isTimeTraveling, the write is only forwarded
Forwards(w) == ~cfg.enabled \/ w.isTimeTraveling

\* a recording set that evicts one entry too early (>= for >)
RecordingSetEarlyShift(i, w, payload) ==
  IF Forwards(w)
  THEN SetFor(i - 1, w, payload)
  ELSE LET newState == Merge(w.state, Resolve(payload, w.state))
           splice == w.currentPointer < Len(w.history) - 1
           cut == IF splice THEN SubSeq(w.history, 1, w.currentPointer + 1)
                  ELSE w.history
           pushed == Append(cut, newState)
           shift == Len(pushed) >= cfg.maxHistory
           kept == IF shift THEN Tail(pushed) ELSE pushed
           done == (IF splice THEN <<Effect("splice", "")>> ELSE <<>>)
                     \o (IF shift THEN <<Effect("shift", "")>> ELSE <<>>)
       IN  SetFor(i - 1,
                  [w EXCEPT !.history = kept, !.currentPointer = Len(kept) - 1,
                            !.effects = @ \o done],
                  payload)

\* timeTravelMiddleware: the set it hands to the creator
RecordingSet(i, w, payload) ==
  IF Forwards(w)
  THEN SetFor(i - 1, w, payload)
  ELSE LET newState == Merge(w.state, Resolve(payload, w.state))
           \* history.splice(currentPointer + 1)
           splice == w.currentPointer < Len(w.history) - 1
           cut == IF splice THEN SubSeq(w.history, 1, w.currentPointer + 1)
                  ELSE w.history
           pushed == Append(cut, newState)
           \* history.shift()
           shift == Len(pushed) > cfg.maxHistory
           kept == IF shift THEN Tail(pushed) ELSE pushed
           done == (IF splice THEN <<Effect("splice", "")>> ELSE <<>>)
                     \o (IF shift THEN <<Effect("shift", "")>> ELSE <<>>)
       IN  SetFor(i - 1,
                  [w EXCEPT !.history = kept, !.currentPointer = Len(kept) - 1,
                            !.effects = @ \o done],
                  payload)

\* computedMiddleware: dependsOn[computedKey] || []
DepsOf(c) == IF c \in DOMAIN cfg.dependsOn THEN cfg.dependsOn[c] ELSE {}

ComputedKeys == {cfg.computed[n] : n \in 1..Len(cfg.computed)}

\* computedMiddleware: dependencies[depKey], the computed keys registered under it
Dependencies(depKey) == {c \in ComputedKeys : depKey \in DepsOf(c)}

\* a computedSet that drops every cached value whenever a key changed
ComputedSetInvalidateAll(i, w, payload) ==
  LET prevState == w.state
      w1 == SetFor(i - 1, w, payload)
      nextState == w1.state
      changedKeys == {k \in DOMAIN nextState : ~ObjectIs(prevState[k], nextState[k])}
  IN  [w1 EXCEPT !.isUpToDate =
         [c \in DOMAIN @ |-> IF changedKeys # {} THEN FALSE ELSE @[c]]]

\* computedMiddleware: computedSet
ComputedSet(i, w, payload) ==
  LET prevState == w.state
      w1 == SetFor(i - 1, w, payload)
      nextState == w1.state
      changedKeys == {k \in DOMAIN nextState : ~ObjectIs(prevState[k], nextState[k])}
      affectedComputedKeys == UNION {Dependencies(k) : k \in changedKeys}
  IN  \* set(payload) threw: the statements after it are not reached
      IF w1.result = Thrown THEN w1
      ELSE [w1 EXCEPT !.isUpToDate =
              [c \in DOMAIN @ |-> IF c \in affectedComputedKeys THEN FALSE ELSE @[c]]]

SetFor(i, w, payload) ==
  IF i = 0 THEN CellSetState(w, payload)
  ELSE IF cfg.applied[i] = "timeTravel" THEN RecordingSet(i, w, payload)
  ELSE IF cfg.applied[i] = "schema" THEN ValidateAndSet(i, w, payload)
  ELSE ComputedSet(i, w, payload)

\* the set the creator's actions call
CreatorSet(w, payload) == SetFor(Len(cfg.applied), w, payload)

IndexOf(name) == CHOOSE i \in 1..Len(cfg.applied) : cfg.applied[i] = name

AsPartial(s) == [kind |-> "partial", name |-> "", partial |-> s]

\* a travel write that goes through the recording set with the guard down
TravelSetRecorded(w, s) ==
  SetFor(IndexOf("timeTravel"), [w EXCEPT !.isTimeTraveling = FALSE], AsPartial(s))

\* the set timeTravelMiddleware received, called with a history entry's state
TravelSet(w, s) == SetFor(IndexOf("timeTravel") - 1, w, AsPartial(s))

\* a goBack that, when it cannot move, writes the first entry again
GoBackOpReapply(w) ==
  IF w.currentPointer <= 0
  THEN (IF Len(w.history) = 0 THEN [w EXCEPT !.result = Bool(FALSE)]
        ELSE [TravelSet(w, w.history[1]) EXCEPT !.result = Bool(FALSE)])
  ELSE LET w1 == [w EXCEPT !.isTimeTraveling = TRUE, !.currentPointer = @ - 1]
           w2 == TravelSet(w1, w1.history[w1.currentPointer + 1])
       IN  [w2 EXCEPT !.isTimeTraveling = FALSE, !.result = Bool(TRUE)]

\* the statements of a travel operation after its set(...) call; they are
\* not reached when the call threw
AfterTravelSet(w) ==
  IF w.result = Thrown THEN w
  ELSE [w EXCEPT !.isTimeTraveling = FALSE, !.result = Bool(TRUE)]

\* _timeTravel.goBack
GoBackOp(w) ==
  IF w.currentPointer <= 0 THEN [w EXCEPT !.result = Bool(FALSE)]
  ELSE LET w1 == [w EXCEPT !.isTimeTraveling = TRUE, !.currentPointer = @ - 1]
       IN  AfterTravelSet(TravelSet(w1, w1.history[w1.currentPointer + 1]))

\* _timeTravel.goForward
GoForwardOp(w) ==
  IF w.currentPointer >= Len(w.history) - 1 THEN [w EXCEPT !.result = Bool(FALSE)]
  ELSE LET w1 == [w EXCEPT !.isTimeTraveling = TRUE, !.currentPointer = @ + 1]
       IN  AfterTravelSet(TravelSet(w1, w1.history[w1.currentPointer + 1]))

\* _timeTravel.jumpToState(index)
JumpToStateOp(w, index) ==
  IF index < 0 \/ index >= Len(w.history) THEN [w EXCEPT !.result = Bool(FALSE)]
  ELSE LET w1 == [w EXCEPT !.isTimeTraveling = TRUE, !.currentPointer = index]
       IN  AfterTravelSet(TravelSet(w1, w1.history[index + 1]))

\* _timeTravel.clearHistory
ClearHistoryOp(w) ==
  IF Len(w.history) = 0 THEN w
  ELSE [w EXCEPT !.history = <<w.history[w.currentPointer + 1]>>, !.currentPointer = 0]

\* _timeTravel.getHistory: each entry with active: index === currentPointer
GetHistory(w) ==
  [index \in 1..Len(w.history) |->
     [state |-> w.history[index], active |-> (index - 1 = w.currentPointer)]]

\* _timeTravel.getCurrentIndex
GetCurrentIndex(w) == w.currentPointer

----------------------------------------------------------------------------
(* computedMiddleware: lazy evaluation *)

\* the template string `${text} (${count})`: a string that differs whenever
\* one of its two parts does, numbered by them
Template(text, count) == 1000 + 16 * (text + 6) + (count + 6)

\* the application's computed functions: getDoubled, getSquared, getMessage
\* and getCombinedValue, which reads doubled and then squared as computed
\* values (from the cache when they are fresh)
ComputedFn(key, w) ==
  IF key = "doubled" THEN [w |-> w, v |-> w.state.count * 2]
  ELSE IF key = "squared" THEN [w |-> w, v |-> w.state.count * w.state.count]
  ELSE IF key = "message" THEN [w |-> w, v |-> Template(w.state.text, w.state.count)]
  ELSE LET d == Compute(w, "doubled")
           q == Compute(d.w, "squared")
       IN  [w |-> q.w, v |-> d.v + q.v * q.w.state.multiplier]

\* a compute that caches the value but never marks it fresh
ComputeForgetful(w, key) ==
  IF w.isUpToDate[key] THEN [w |-> w, v |-> w.cache[key]]
  ELSE LET r == ComputedFn(key, [w EXCEPT !.effects = Append(@, Effect("compute", key))])
       IN  [w |-> [r.w EXCEPT !.cache[key] = r.v], v |-> r.v]

\* compute(key)
Compute(w, key) ==
  IF w.isUpToDate[key] THEN [w |-> w, v |-> w.cache[key]]
  ELSE LET r == ComputedFn(key, [w EXCEPT !.effects = Append(@, Effect("compute", key))])
       IN  [w |-> [r.w EXCEPT !.cache[key] = r.v, !.isUpToDate[key] = TRUE], v |-> r.v]

\* storeWithComputed proxy, get trap for a computed property
ReadComputedOp(w, key) ==
  LET r == Compute(w, key) IN [r.w EXCEPT !.result = Value(r.v)]

\* _computed.recompute(key)
RecomputeOp(w, key) ==
  LET r == Compute([w EXCEPT !.isUpToDate[key] = FALSE], key)
  IN  [r.w EXCEPT !.result = Value(r.v)]

RECURSIVE RecomputeFrom(_, _)
RecomputeFrom(w, n) ==
  IF n > Len(cfg.computed) THEN w
  ELSE LET key == cfg.computed[n]
       IN  RecomputeFrom(Compute([w EXCEPT !.isUpToDate[key] = FALSE], key).w, n + 1)

\* _computed.recomputeAll(): every key in turn is marked stale and computed
RecomputeAllOp(w) == RecomputeFrom(w, 1)

RECURSIVE ComputeAllFrom(_, _)
ComputeAllFrom(w, n) ==
  IF n > Len(cfg.computed) THEN w
  ELSE ComputeAllFrom(Compute(w, cfg.computed[n]).w, n + 1)

\* _computed.getStateWithComputed
GetStateWithComputedOp(w) ==
  LET w1 == ComputeAllFrom(w, 1)
  IN  [w1 EXCEPT !.result = [kind |-> "state", v |-> Merge(w1.state, w1.cache)]]

----------------------------------------------------------------------------
(* createPersistStore *)

\* the migrate option: the default returns the stored state; the application's
\* upgrade adds fontSize and notes the version it came from
Migrate(persisted, version) ==
  IF cfg.migrate = "upgrade"
  THEN Merge(persisted, [fontSize |-> 16, migratedFrom |-> version])
  ELSE persisted

Called(x) == [defined |-> TRUE, state |-> x]
CalledUndefined == [defined |-> FALSE, state |-> EmptyObj]

\* onRehydrateStorage?.(arg)
OnRehydrateStorage(w, arg) == [w EXCEPT !.cbLog = Append(@, arg)]

\* the application's callback throws
CallbackThrows == cfg.callback = "throws"

\* a catch block that leaves the store unhydrated, so that a later call retries
RehydrateCatchUnmarked(w) ==
  LET w1 == OnRehydrateStorage(w, CalledUndefined)
  IN  IF CallbackThrows THEN [w1 EXCEPT !.result = Rejected] ELSE w1

\* rehydrate: the catch block; what its callback throws rejects the promise
RehydrateCatch(w) ==
  LET w1 == OnRehydrateStorage([w EXCEPT !.isHydrated = TRUE], CalledUndefined)
  IN  IF CallbackThrows THEN [w1 EXCEPT !.result = Rejected] ELSE w1

\* a migratedState that runs migrate whatever the stored version is
MigratedStateAlways(w, item) ==
  LET w1 == [w EXCEPT !.effects = Append(@, Effect("migrate", ""))]
  IN  IF cfg.migrate = "throws" THEN [w |-> w1, threw |-> TRUE, v |-> EmptyObj]
      ELSE [w |-> w1, threw |-> FALSE, v |-> Migrate(item.state, item.version)]

\* rehydrate: migratedState, the stored state or what migrate makes of it
MigratedState(w, item) ==
  IF item.version = cfg.version THEN [w |-> w, threw |-> FALSE, v |-> item.state]
  ELSE LET w1 == [w EXCEPT !.effects = Append(@, Effect("migrate", ""))]
       IN  IF cfg.migrate = "throws" THEN [w |-> w1, threw |-> TRUE, v |-> EmptyObj]
           ELSE [w |-> w1, threw |-> FALSE, v |-> Migrate(item.state, item.version)]

\* a restored state that is the persisted state alone
RestoredStateReplace(initialState, migratedState) == migratedState

\* rehydrate: restoredState = { ...initialState, ...migratedState }
RestoredState(initialState, migratedState) == Merge(initialState, migratedState)

\* a restore that writes the state first and marks the store hydrated after
RestoreUnmarked(w, restoredState) ==
  [CellSetState(w, AsPartial(restoredState)) EXCEPT !.isHydrated = TRUE]

\* rehydrate: isHydrated = true; originalSet(restoredState)
Restore(w, restoredState) ==
  CellSetState([w EXCEPT !.isHydrated = TRUE], AsPartial(restoredState))

\* a guard that lets every call through
SkipsRehydrateNever(w) == FALSE

\* rehydrate: the guard that makes a call return at once
SkipsRehydrate(w) == w.isHydrated

\* rehydrate()
RehydrateOp(w) ==
  IF SkipsRehydrate(w) THEN w
  ELSE LET item == w.storage[w.name]
           w0 == [w EXCEPT !.effects = Append(@, Effect("getItem", w.name))]
       IN
    IF "getItem" \in cfg.faults THEN RehydrateCatch(w0)
    ELSE IF item.kind = "none"
    THEN LET w1 == OnRehydrateStorage([w0 EXCEPT !.isHydrated = TRUE], CalledUndefined)
         IN  IF CallbackThrows THEN RehydrateCatch(w1) ELSE w1
    ELSE IF item.kind = "garbage" THEN RehydrateCatch(w0)
    ELSE LET m == MigratedState(w0, item)
         IN
      IF m.threw THEN RehydrateCatch(m.w)
      ELSE LET restoredState == RestoredState(cfg.initialState, m.v)
               w2 == Restore(m.w, restoredState)
               w3 == OnRehydrateStorage(w2, Called(w2.state))
           IN  IF w2.result = Thrown THEN RehydrateCatch([w2 EXCEPT !.result = Void])
               ELSE IF CallbackThrows THEN RehydrateCatch(w3) ELSE w3

\* usePersistStore: the mount effect
MountOp(w) ==
  IF w.isMounted THEN w
  ELSE LET w1 == [w EXCEPT !.isMounted = TRUE]
           \* the promise rehydrate() returns is dropped
           w2 == IF ~cfg.skipHydration /\ ~w1.isHydrated
                 THEN [RehydrateOp(w1) EXCEPT !.result = Void]
                 ELSE w1
       IN  PersistState(w2, w2.state)

\* a wrapper that schedules the backup save whether mounted or not
PublicSetStateUngated(w, payload) ==
  LET w1 == CellSetState(w, payload)
  IN  IF cfg.persist THEN [w1 EXCEPT !.timers = @ + 1] ELSE w1

\* store.setState: the cell's, or createPersistStore's wrapper of it
PublicSetState(w, payload) ==
  LET w1 == CellSetState(w, payload)
  IN  IF cfg.persist /\ w1.isMounted /\ w1.result # Thrown
      THEN [w1 EXCEPT !.timers = @ + 1] ELSE w1

\* the setTimeout callback of the wrapper
TimerOp(w) == PersistState([w EXCEPT !.timers = @ - 1], w.state)

\* persist.forceSave(): persistState(store.getState())
ForceSaveOp(w) == PersistState(w, w.state)

\* cleanup(): the unsubscribe function of the store's own subscription
CleanupOp(w) == [w EXCEPT !.listeners = DeleteListener(@, PERSIST)]

\* persist(store, options): the setState it puts on the store saves at once
WrappedSetState(w, payload) ==
  LET w1 == CellSetState(w, payload)
  IN  IF w1.isMounted /\ w1.result # Thrown THEN PersistState(w1, w1.state) ELSE w1

\* persist(store, options): the mount effect of its hook
WrappedMountOp(w) ==
  IF w.isMounted THEN w
  ELSE LET w1 == [w EXCEPT !.isMounted = TRUE]
       IN  IF ~cfg.skipHydration /\ ~w1.isHydrated
           THEN [RehydrateOp(w1) EXCEPT !.result = Void]
           ELSE w1

\* a clearStorage that empties the whole backend (storage.clear())
ClearStorageOpAll(w) ==
  [w EXCEPT !.storage = [k \in DOMAIN @ |-> NoItem],
            !.effects = Append(@, Effect("removeItem", w.name))]

\* persist.clearStorage
ClearStorageOp(w) ==
  [w EXCEPT !.storage = [@ EXCEPT ![w.name] = NoItem],
            !.effects = Append(@, Effect("removeItem", w.name))]

----------------------------------------------------------------------------
(* Inputs *)

\* the functions the application subscribes
LISTENERS == cfg.subscribers

Partials == UNION {[K -> cfg.vals] : K \in cfg.keysets}

Updaters ==
  {u \in cfg.updaters : u = "increase" => state.count \in 0..(MaxCount - 1)}

Payloads ==
  {AsPartial(p) : p \in Partials}
    \cup {[kind |-> "updater", name |-> u, partial |-> EmptyObj] : u \in Updaters}

NoPayload == AsPartial(EmptyObj)

----------------------------------------------------------------------------
(* Operations: each is one call from outside, run to completion *)

Install(w) ==
  /\ state' = w.state
  /\ ref' = w.ref
  /\ listeners' = w.listeners
  /\ history' = w.history
  /\ currentPointer' = w.currentPointer
  /\ isTimeTraveling' = w.isTimeTraveling
  /\ cache' = w.cache
  /\ isUpToDate' = w.isUpToDate
  /\ storage' = w.storage
  /\ isHydrated' = w.isHydrated
  /\ isMounted' = w.isMounted
  /\ timers' = w.timers
  /\ peer' = w.peer
  /\ calls' = w.calls
  /\ effects' = w.effects
  /\ cbLog' = w.cbLog
  /\ errLog' = w.errLog
  /\ result' = w.result

Run(op, payload, n, key, w) ==
  /\ Install(w)
  /\ last' = [op |-> op, payload |-> payload, n |-> n, key |-> key]
  /\ UNCHANGED <<cfg, found>>

Do(op, payload, n, key, w) ==
  /\ Run(op, payload, n, key, w)
  /\ UNCHANGED written

\* useStore.setState(partial | updater)
SetState ==
  \E payload \in Payloads :
    /\ (cfg.persist /\ isMounted) => timers < MaxTimers
    /\ Do("setState", payload, 0, "", PublicSetState(Begin, payload))

\* useStore.hydrate(serverState)
Hydrate ==
  \E p \in Partials :
    Do("hydrate", AsPartial(p), 0, "", CellSetState(Begin, AsPartial(p)))

\* an action of the creator: set(partial | updater)
Act ==
  \E payload \in Payloads :
    Do("action", payload, 0, "", CreatorSet(Begin, payload))

\* useStore.subscribe(listener)
Subscribe ==
  \E l \in LISTENERS :
    Do("subscribe", NoPayload, 0, l,
       [Begin EXCEPT !.listeners = SubscribeListener(@, l)])

\* the function subscribe returned
Unsubscribe ==
  \E l \in LISTENERS :
    Do("unsubscribe", NoPayload, 0, l,
       \* Set.delete returns whether the listener was there
       [Begin EXCEPT !.listeners = DeleteListener(@, l),
                     !.result = Bool(\E i \in 1..Len(listeners) : listeners[i] = l)])

\* useStore.subscribe(READER)
SubscribeReader ==
  Do("subscribe", NoPayload, 0, READER,
     [Begin EXCEPT !.listeners = SubscribeListener(@, READER)])

\* getState() has the field, so the API behind it can be called
HasField(f) == f \in StoreFields(World)

\* getState()._timeTravel.goBack(), where the store has a _timeTravel
TravelBack ==
  /\ HasField("_timeTravel")
  /\ Do("goBack", NoPayload, 0, "", GoBackOp(Begin))

\* getState().getStateWithComputed().doubled, where the store has the proxy
ReadDoubled ==
  /\ HasField("getStateWithComputed")
  /\ Do("read", NoPayload, 0, "doubled", ReadComputedOp(Begin, "doubled"))

GoBack == Do("goBack", NoPayload, 0, "", GoBackOp(Begin))

GoForward == Do("goForward", NoPayload, 0, "", GoForwardOp(Begin))

JumpToState ==
  \E index \in -1..MaxHist :
    Do("jumpToState", NoPayload, index, "", JumpToStateOp(Begin, index))

ClearHistory == Do("clearHistory", NoPayload, 0, "", ClearHistoryOp(Begin))

ReadComputed ==
  \E key \in ComputedKeys :
    Do("read", NoPayload, 0, key, ReadComputedOp(Begin, key))

Recompute ==
  \E key \in ComputedKeys :
    Do("recompute", NoPayload, 0, key, RecomputeOp(Begin, key))

RecomputeAll == Do("recomputeAll", NoPayload, 0, "", RecomputeAllOp(Begin))

GetStateWithComputed ==
  Do("getStateWithComputed", NoPayload, 0, "", GetStateWithComputedOp(Begin))

Mount == Do("mount", NoPayload, 0, "", MountOp(Begin))

Rehydrate == Do("rehydrate", NoPayload, 0, "", RehydrateOp(Begin))

TimerFire ==
  /\ timers > 0
  /\ Do("timer", NoPayload, 0, "", TimerOp(Begin))

ClearStorage == Do("clearStorage", NoPayload, 0, "", ClearStorageOp(Begin))

ForceSave == Do("forceSave", NoPayload, 0, "", ForceSaveOp(Begin))

Cleanup == Do("cleanup", NoPayload, 0, "", CleanupOp(Begin))

(* persist(store, options): the calls it replaces *)

WrappedSetStateCall ==
  \E payload \in Payloads :
    Do("setState", payload, 0, "", WrappedSetState(Begin, payload))

WrappedMount == Do("mount", NoPayload, 0, "", WrappedMountOp(Begin))

(* the same calls made on the second instance *)

PeerSetState ==
  \E payload \in {AsPartial(p) : p \in Partials} :
    /\ peer.isMounted => peer.timers < MaxTimers
    /\ Do("setState", payload, 0, peer.name,
          Swap(PublicSetState(Swap(Begin), payload)))

PeerMount == Do("mount", NoPayload, 0, peer.name, Swap(MountOp(Swap(Begin))))

PeerRehydrate ==
  Do("rehydrate", NoPayload, 0, peer.name, Swap(RehydrateOp(Swap(Begin))))

PeerTimerFire ==
  /\ peer.timers > 0
  /\ Do("timer", NoPayload, 0, peer.name, Swap(TimerOp(Swap(Begin))))

PeerClearStorage ==
  Do("clearStorage", NoPayload, 0, peer.name, Swap(ClearStorageOp(Swap(Begin))))

----------------------------------------------------------------------------
(* Construction *)

NoDeps == [c \in {} |-> {}]

BaseCfg ==
  [name |-> NAME, persist |-> FALSE, skipHydration |-> FALSE, version |-> 0,
   migrate |-> "default", callback |-> "ok", faults |-> {},
   applied |-> <<>>, subscribers |-> {"l1", "l2"},
   schema |-> <<>>, onError |-> TRUE, strict |-> FALSE,
   middleware |-> <<>>, maxHistory |-> 100, enabled |-> TRUE,
   computed |-> <<>>, dependsOn |-> NoDeps,
   initialState |-> [count |-> 0, text |-> 0],
   keysets |-> SUBSET {"count", "text"}, vals |-> {0, 1},
   updaters |-> {"increase", "same"}]

\* schemaMiddleware: the validation of what the creator returned
InitialErrors ==
  IF (\E n \in 1..Len(cfg.applied) : cfg.applied[n] = "schema")
       /\ Len(ValidateState(cfg.initialState)) > 0
  THEN OnError([errLog |-> <<>>], ValidateState(cfg.initialState)).errLog
  ELSE <<>>

\* no second instance
NoPeer == [name |-> ""]

\* the store as createStore / createPersistStore leave it
InitWith(c, item) ==
  /\ cfg = [c EXCEPT !.applied = Applied(c.middleware)]
  /\ state = c.initialState
  /\ ref = 0
  /\ listeners = IF c.persist THEN <<PERSIST>> ELSE <<>>
  /\ history = <<>>
  /\ currentPointer = -1
  /\ isTimeTraveling = FALSE
  /\ cache = [k \in {c.computed[n] : n \in 1..Len(c.computed)} |-> Undefined]
  /\ isUpToDate = [k \in {c.computed[n] : n \in 1..Len(c.computed)} |-> FALSE]
  /\ storage = [k \in {c.name} |-> item]
  /\ isHydrated = FALSE
  /\ isMounted = FALSE
  /\ timers = 0
  /\ peer = NoPeer
  /\ calls = <<>>
  /\ effects = <<>>
  /\ cbLog = <<>>
  /\ errLog = InitialErrors
  /\ result = Void
  /\ written = <<>>
  /\ found = item
  /\ last = [op |-> "create", payload |-> NoPayload, n |-> 0, key |-> ""]

----------------------------------------------------------------------------
(* createStore(creator) *)

CellCfg ==
  [BaseCfg EXCEPT !.vals = {0, NaN, NegZero}, !.subscribers = {"l1", "l2", "l3"}]

Init == InitWith(CellCfg, NoItem)

Next == SetState \/ Hydrate \/ Subscribe \/ Unsubscribe

Spec == Init /\ [][Next]_vars

(* createStore(creator, [timeTravelMiddleware({ maxHistory, enabled })]) *)

InitTT ==
  \E n \in 1..MaxHist, e \in BOOLEAN :
    InitWith([BaseCfg EXCEPT !.middleware = <<"timeTravel">>, !.maxHistory = n,
                             !.enabled = e, !.updaters = {"same"}], NoItem)

NextTT == Act \/ SetState \/ GoBack \/ GoForward \/ JumpToState \/ ClearHistory

SpecTT == InitTT /\ [][NextTT]_vars

(* createStore(creator, [timeTravelMiddleware({ maxHistory: 3 })]) with a listener *)

TravelCfg ==
  [BaseCfg EXCEPT !.middleware = <<"timeTravel">>, !.maxHistory = 3,
                  !.keysets = {{"count"}, {"text"}}, !.vals = {0, 1}, !.updaters = {},
                  !.subscribers = {"l1"}]

InitTravel == InitWith(TravelCfg, NoItem)

NextTravel ==
  Act \/ SetState \/ GoBack \/ GoForward \/ JumpToState \/ ClearHistory \/ Subscribe

SpecTravel == InitTravel /\ [][NextTravel]_vars

(* The branching test, run on the middleware: three writes, goBack, a write *)

SCRIPT == <<"action", "action", "action", "goBack", "action">>

ScriptCfg == [BaseCfg EXCEPT !.middleware = <<"timeTravel">>, !.updaters = {}]

InitScript == InitWith(ScriptCfg, NoItem)

\* the next scripted step is a write, and the write produces a new state
ScriptAct ==
  /\ Len(written) < Len(SCRIPT)
  /\ SCRIPT[Len(written) + 1] = "action"
  /\ \E payload \in Payloads :
       /\ HasChanged(state, Resolve(payload, state))
       /\ Run("action", payload, 0, "", CreatorSet(Begin, payload))
       /\ written' = Append(written, state')

ScriptGoBack ==
  /\ Len(written) < Len(SCRIPT)
  /\ SCRIPT[Len(written) + 1] = "goBack"
  /\ Run("goBack", NoPayload, 0, "", GoBackOp(Begin))
  /\ written' = Append(written, state')

NextScript == ScriptAct \/ ScriptGoBack

SpecScript == InitScript /\ [][NextScript]_vars

(* createStore(creator, [schemaMiddleware({ schema, onError, strict })]) *)

CountRules ==
  <<[key |-> "count", type |-> "number", required |-> TRUE, validate |-> "inRange"]>>

SchemaCfg(strict, onError) ==
  [BaseCfg EXCEPT !.middleware = <<"schema">>, !.schema = CountRules,
                  !.strict = strict, !.onError = onError,
                  !.keysets = {{"count"}, {"text"}}, !.vals = {0, 1, 121, Str, Undefined},
                  !.updaters = {}, !.subscribers = {"l1"}]

InitSchema ==
  \E strict \in BOOLEAN, onError \in BOOLEAN : InitWith(SchemaCfg(strict, onError), NoItem)

NextSchema == Act \/ SetState \/ Subscribe

SpecSchema == InitSchema /\ [][NextSchema]_vars

(* createStore(creator, [schemaMiddleware({ strict: true }), timeTravelMiddleware()]) *)

GuardedCfg ==
  [BaseCfg EXCEPT !.middleware = <<"schema", "timeTravel">>, !.schema = CountRules,
                  !.strict = TRUE, !.maxHistory = 3,
                  !.keysets = {{"count"}}, !.vals = {0, 1, 121},
                  !.updaters = {}, !.subscribers = {"l1"}]

InitGuarded == InitWith(GuardedCfg, NoItem)

NextGuarded ==
  Act \/ SetState \/ Hydrate \/ GoBack \/ GoForward \/ JumpToState

SpecGuarded == InitGuarded /\ [][NextGuarded]_vars

(* createStore(creator, [timeTravelMiddleware()]) with a listener that throws *)

ThrowingCfg ==
  [TravelCfg EXCEPT !.keysets = {{"count"}}, !.subscribers = {THROWER}]

InitThrowing == InitWith(ThrowingCfg, NoItem)

NextThrowing ==
  Act \/ GoBack \/ GoForward \/ JumpToState \/ Subscribe \/ Unsubscribe

SpecThrowing == InitThrowing /\ [][NextThrowing]_vars

(* createStore(creator, [timeTravelMiddleware({ enabled: false })]) *)

DisabledCfg == [TravelCfg EXCEPT !.enabled = FALSE, !.subscribers = {"l1", "l2"}]

InitDisabled == InitWith(DisabledCfg, NoItem)

NextDisabled ==
  \/ Act \/ SetState \/ Subscribe \/ Unsubscribe
  \/ GoBack \/ GoForward \/ JumpToState \/ ClearHistory

SpecDisabled == InitDisabled /\ [][NextDisabled]_vars

(* The travel test, run on the middleware: three writes, goBack, goBack, *)
(* goForward, jumpToState(0), jumpToState(3)                              *)

TRAVELSCRIPT ==
  <<[op |-> "action", index |-> 0], [op |-> "action", index |-> 0],
    [op |-> "action", index |-> 0], [op |-> "goBack", index |-> 0],
    [op |-> "goBack", index |-> 0], [op |-> "goForward", index |-> 0],
    [op |-> "jumpToState", index |-> 0], [op |-> "jumpToState", index |-> 3]>>

\* the next step of the travel test is a write, and the write produces a new state
TravelScriptAct ==
  /\ Len(written) < Len(TRAVELSCRIPT)
  /\ TRAVELSCRIPT[Len(written) + 1].op = "action"
  /\ \E payload \in Payloads :
       /\ HasChanged(state, Resolve(payload, state))
       /\ Run("action", payload, 0, "", CreatorSet(Begin, payload))
       /\ written' = Append(written, state')

TravelScriptGoBack ==
  /\ Len(written) < Len(TRAVELSCRIPT)
  /\ TRAVELSCRIPT[Len(written) + 1].op = "goBack"
  /\ Run("goBack", NoPayload, 0, "", GoBackOp(Begin))
  /\ written' = Append(written, state')

TravelScriptGoForward ==
  /\ Len(written) < Len(TRAVELSCRIPT)
  /\ TRAVELSCRIPT[Len(written) + 1].op = "goForward"
  /\ Run("goForward", NoPayload, 0, "", GoForwardOp(Begin))
  /\ written' = Append(written, state')

TravelScriptJump ==
  /\ Len(written) < Len(TRAVELSCRIPT)
  /\ TRAVELSCRIPT[Len(written) + 1].op = "jumpToState"
  /\ LET index == TRAVELSCRIPT[Len(written) + 1].index
     IN  Run("jumpToState", NoPayload, index, "", JumpToStateOp(Begin, index))
  /\ written' = Append(written, state')

NextTravelScript ==
  \/ TravelScriptAct \/ TravelScriptGoBack \/ TravelScriptGoForward
  \/ TravelScriptJump

SpecTravelScript == InitScript /\ [][NextTravelScript]_vars

(* createStore(creator, [computedMiddleware({ computed, dependsOn })]) *)

\* the computed values and the dependency table of the computed tests
ComputedCfg ==
  [BaseCfg EXCEPT !.middleware = <<"computed">>,
                  !.computed = <<"doubled", "squared", "message", "combinedValue">>,
                  !.dependsOn = [doubled |-> {"count"},
                                 squared |-> {"count"},
                                 message |-> {"count", "text"},
                                 combinedValue |-> {"count", "multiplier",
                                                    "doubled", "squared"}],
                  !.initialState = [count |-> 0, text |-> 0, multiplier |-> 1],
                  !.keysets = {{}, {"count"}, {"text"}, {"multiplier"}},
                  !.updaters = {"same"}]

\* the same computed values, combinedValue declaring what its function reads:
\* doubled, squared and multiplier
ChainCfg ==
  [ComputedCfg EXCEPT !.dependsOn = [doubled |-> {"count"},
                                     squared |-> {"count"},
                                     message |-> {"count", "text"},
                                     combinedValue |-> {"doubled", "squared",
                                                        "multiplier"}]]

\* the same computed values with the dependsOn option left out
UndeclaredCfg == [ComputedCfg EXCEPT !.dependsOn = NoDeps]

InitComputed == InitWith(ComputedCfg, NoItem)

NextComputed ==
  \/ Act \/ ReadComputed \/ Recompute \/ RecomputeAll
  \/ GetStateWithComputed

SpecComputed == InitComputed /\ [][NextComputed]_vars

SpecChain == InitWith(ChainCfg, NoItem) /\ [][NextComputed]_vars

SpecUndeclared == InitWith(UndeclaredCfg, NoItem) /\ [][NextComputed]_vars

(* createStore(creator, [timeTravelMiddleware(..), computedMiddleware(..)]), in *)
(* either order, with a listener that reads the computed value and the history *)

StackCfg(middleware) ==
  [BaseCfg EXCEPT !.middleware = middleware, !.maxHistory = 2,
                  !.computed = <<"doubled">>,
                  !.dependsOn = [doubled |-> {"count"}],
                  !.keysets = {{"count"}}, !.vals = {1, 2},
                  !.updaters = {}]

InitStack ==
  \E middleware \in {<<"timeTravel", "computed">>, <<"computed", "timeTravel">>} :
    InitWith(StackCfg(middleware), NoItem)

NextStack == Act \/ SetState \/ ReadComputed \/ GoBack \/ SubscribeReader

SpecStack == InitStack /\ [][NextStack]_vars

(* createStore(creator, list) for lists that may hold middleware that throw *)

MaxList == 3

Kinds == {"timeTravel", "computed", "broken", "faulty"}

\* the lists of at most MaxList different middleware
Lists ==
  {l \in UNION {[1..n -> Kinds] : n \in 0..MaxList} :
     \A i, j \in 1..Len(l) : i # j => l[i] # l[j]}

InitCompose ==
  \E list \in Lists : InitWith(StackCfg(list), NoItem)

NextCompose == Act \/ SetState \/ TravelBack \/ ReadDoubled

SpecCompose == InitCompose /\ [][NextCompose]_vars

(* createPersistStore(creator, { name, version, skipHydration }) *)

PersistCfg(skip) ==
  [BaseCfg EXCEPT !.persist = TRUE, !.version = 1, !.skipHydration = skip,
                  !.initialState = [count |-> 0, text |-> 0, increase |-> Fn],
                  !.updaters = {"increase"}]

\* what an earlier session may have left under the store's name
StoredItems ==
  {NoItem, Garbage}
    \cup {[kind |-> "json", state |-> p, version |-> v] :
            p \in UNION {[K -> {1, 2}] : K \in SUBSET {"count", "text"}}, v \in {0, 1}}

InitPersist ==
  \E skip \in BOOLEAN, item \in StoredItems : InitWith(PersistCfg(skip), item)

NextPersist ==
  \/ Mount \/ Rehydrate \/ SetState \/ Act \/ Hydrate \/ TimerFire \/ ClearStorage
  \/ ForceSave

SpecPersist == InitPersist /\ [][NextPersist]_vars

(* Two persisted stores with different names, given the same storage *)

OTHERNAME == "settings-storage"

PairCfg ==
  [PersistCfg(FALSE) EXCEPT !.initialState = [count |-> 0],
                            !.keysets = {{"count"}}, !.vals = {0, 1},
                            !.updaters = {}]

PairItems == {NoItem, [kind |-> "json", state |-> [count |-> 2], version |-> 1]}

InitPair ==
  \E item \in PairItems, other \in PairItems :
    /\ cfg = [PairCfg EXCEPT !.applied = Applied(PairCfg.middleware)]
    /\ state = PairCfg.initialState
    /\ ref = 0
    /\ listeners = <<PERSIST>>
    /\ history = <<>>
    /\ currentPointer = -1
    /\ isTimeTraveling = FALSE
    /\ cache = [k \in {} |-> Undefined]
    /\ isUpToDate = [k \in {} |-> FALSE]
    /\ storage = [k \in {PairCfg.name, OTHERNAME} |-> IF k = OTHERNAME THEN other ELSE item]
    /\ isHydrated = FALSE
    /\ isMounted = FALSE
    /\ timers = 0
    /\ peer = [name |-> OTHERNAME, state |-> PairCfg.initialState, ref |-> 0,
               listeners |-> <<PERSIST>>,
               history |-> <<>>, currentPointer |-> -1, isTimeTraveling |-> FALSE,
               cache |-> [k \in {} |-> Undefined],
               isUpToDate |-> [k \in {} |-> FALSE],
               isHydrated |-> FALSE, isMounted |-> FALSE, timers |-> 0]
    /\ calls = <<>>
    /\ effects = <<>>
    /\ cbLog = <<>>
    /\ errLog = <<>>
    /\ result = Void
    /\ written = <<>>
    /\ found = item
    /\ last = [op |-> "create", payload |-> NoPayload, n |-> 0, key |-> ""]

NextPair ==
  \/ Mount \/ Rehydrate \/ SetState \/ TimerFire \/ ClearStorage
  \/ PeerMount \/ PeerRehydrate \/ PeerSetState \/ PeerTimerFire \/ PeerClearStorage

SpecPair == InitPair /\ [][NextPair]_vars

(* persist(createStore(creator), options): the cell has no persistence listener *)

WrappedCfg(skip) ==
  [PersistCfg(skip) EXCEPT !.persist = FALSE, !.keysets = {{"count"}, {"text"}}]

InitWrapped ==
  \E skip \in BOOLEAN, item \in PairItems : InitWith(WrappedCfg(skip), item)

NextWrapped ==
  WrappedMount \/ WrappedSetStateCall \/ Act \/ Hydrate \/ Rehydrate \/ ClearStorage

SpecWrapped == InitWrapped /\ [][NextWrapped]_vars

(* createPersistStore with an onRehydrateStorage callback that may throw *)

CallbackCfg(skip, callback) ==
  [PersistCfg(skip) EXCEPT !.callback = callback, !.keysets = {{"count"}},
                           !.updaters = {}]

CallbackItems ==
  {NoItem, Garbage, [kind |-> "json", state |-> [count |-> 2], version |-> 1]}

InitCallback ==
  \E skip \in BOOLEAN, callback \in {"ok", "throws"}, item \in CallbackItems :
    InitWith(CallbackCfg(skip, callback), item)

NextCallback == Mount \/ Rehydrate \/ SetState \/ TimerFire \/ ClearStorage

SpecCallback == InitCallback /\ [][NextCallback]_vars

(* createPersistStore with a listener that asks whether the store is hydrated *)

WatchedCfg(skip) ==
  [PersistCfg(skip) EXCEPT !.keysets = {{"count"}}, !.updaters = {},
                           !.subscribers = {WATCHER}]

InitWatched ==
  \E skip \in BOOLEAN, item \in PairItems : InitWith(WatchedCfg(skip), item)

NextWatched == Mount \/ Rehydrate \/ Subscribe \/ SetState \/ TimerFire

SpecWatched == InitWatched /\ [][NextWatched]_vars

(* A persisted store written to before and after its mount, with listeners *)

GateCfg(skip) ==
  [PersistCfg(skip) EXCEPT !.keysets = {{}, {"count"}, {"text"}}]

InitGate ==
  \E skip \in BOOLEAN, item \in {NoItem, [kind |-> "json", state |-> [count |-> 2], version |-> 1]} :
    InitWith(GateCfg(skip), item)

NextGate ==
  \/ Mount \/ SetState \/ Act \/ Hydrate \/ Subscribe \/ TimerFire
  \/ ForceSave \/ Cleanup

SpecGate == InitGate /\ [][NextGate]_vars

(* createPersistStore(creator, options, [timeTravelMiddleware({ maxHistory })]) *)

PersistTTCfg(skip) ==
  [PersistCfg(skip) EXCEPT !.middleware = <<"timeTravel">>, !.maxHistory = 2,
                           !.keysets = {{"count"}}, !.vals = {1, NaN},
                           !.updaters = {}]

InitPersistTT ==
  \E skip \in BOOLEAN, item \in {NoItem, [kind |-> "json", state |-> [count |-> 2], version |-> 1]} :
    InitWith(PersistTTCfg(skip), item)

NextPersistTT ==
  \/ Mount \/ Rehydrate \/ SetState \/ Act \/ Hydrate \/ GoBack \/ GoForward \/ TimerFire
  \/ ForceSave \/ Cleanup

SpecPersistTT == InitPersistTT /\ [][NextPersistTT]_vars

(* A persisted store whose partialize, JSON.stringify or setItem throws *)

InitFaulty ==
  \E fault \in {"partialize", "stringify", "setItem"},
     item \in {NoItem, [kind |-> "json", state |-> [count |-> 2], version |-> 1]} :
    InitWith([GateCfg(FALSE) EXCEPT !.faults = {fault}], item)

NextFaulty ==
  Mount \/ SetState \/ Act \/ Hydrate \/ Subscribe \/ TimerFire \/ ForceSave

SpecFaulty == InitFaulty /\ [][NextFaulty]_vars

(* A store mounted and rehydrated by hand, with listeners, and nothing else *)

InitSkip ==
  \E skip \in BOOLEAN, item \in StoredItems : InitWith(PersistCfg(skip), item)

NextSkip == Mount \/ Rehydrate \/ Subscribe \/ Unsubscribe

SpecSkip == InitSkip /\ [][NextSkip]_vars

(* createPersistStore(creator, { name, version, migrate, skipHydration }) on a *)
(* storage whose getItem may throw                                             *)

MigrateCfg(skip, migrate, faults) ==
  [PersistCfg(skip) EXCEPT !.migrate = migrate, !.faults = faults,
                           !.keysets = {{"text"}}, !.updaters = {}]

InitMigrate ==
  \E skip \in BOOLEAN, migrate \in {"default", "upgrade", "throws"},
     faults \in {{}, {"getItem"}}, item \in StoredItems :
    InitWith(MigrateCfg(skip, migrate, faults), item)

NextMigrate == Mount \/ Rehydrate \/ Hydrate \/ ClearStorage

SpecMigrate == InitMigrate /\ [][NextMigrate]_vars

----------------------------------------------------------------------------
(* Claims about the state cell (Spec) *)

IsWrite(op) == op \in {"setState", "hydrate", "action"}

\* the partial a write resolves to, on the snapshot it finds
PartialOf(l, s) == Resolve(l.payload, s)

\* C1: a setState (partial or updater) whose every key carries a value
\* Object.is-equal to the current one (NaN equal to NaN, +0 different from -0)
\* invokes no listener and leaves getState() returning the very same object.
C1_NoOpWriteIsSilent ==
  [][ ( /\ last'.op = "setState"
        /\ \A k \in DOMAIN PartialOf(last', state) : PartialOf(last', state)[k] = state[k] )
      => ( calls' = <<>> /\ ref' = ref /\ state' = state ) ]_vars

\* a no-op setState({count: NaN}) has run with two listeners registered
C1_Witness ==
  /\ last.op = "setState"
  /\ last.payload.kind = "partial"
  /\ DOMAIN last.payload.partial = {"count"}
  /\ last.payload.partial.count = NaN
  /\ state.count = NaN
  /\ Len(listeners) = 2
  /\ calls = <<>>
  /\ effects = <<>>

\* C2: a setState in which some key of the partial differs replaces the
\* snapshot by the shallow merge of the old one with the partial and then
\* invokes every registered listener exactly once, with the new snapshot, in
\* registration order, before it returns.
C2_ChangingWriteNotifies ==
  [][ ( /\ last'.op = "setState"
        /\ \E k \in DOMAIN PartialOf(last', state) : PartialOf(last', state)[k] # state[k] )
      => ( /\ state' = [k \in DOMAIN state |->
                          IF k \in DOMAIN PartialOf(last', state)
                          THEN PartialOf(last', state)[k] ELSE state[k]]
           /\ ref' # ref
           /\ calls' = [i \in 1..Len(listeners) |->
                          [listener |-> listeners[i], state |-> state']]
           /\ listeners' = listeners ) ]_vars

\* setState({count: -0}) on count = +0, text kept, l2 registered before l1
C2_Witness ==
  /\ last.op = "setState"
  /\ last.payload.kind = "partial"
  /\ DOMAIN last.payload.partial = {"count"}
  /\ state.count = NegZero
  /\ state.text = NaN
  /\ listeners = <<"l2", "l1">>
  /\ calls = <<[listener |-> "l2", state |-> state], [listener |-> "l1", state |-> state]>>

----------------------------------------------------------------------------
(* Claims about the time-travel history (SpecTT, SpecScript) *)

\* C3: from S0, writes producing S1, S2, S3, one goBack and a write producing
\* S4 leave the history exactly [S0, S1, S2, S4] with the cursor on S4.
C3_BranchHistory ==
  Len(written) = Len(SCRIPT) =>
    /\ history = <<cfg.initialState, written[1], written[2], written[5]>>
    /\ currentPointer = 3

\* C4: after construction the history holds exactly the initial state and
\* the cursor is 0; afterwards the history is never empty and the cursor is
\* an index of it.
C4_HistorySeeded ==
  /\ Len(history) >= 1
  /\ currentPointer \in 0..(Len(history) - 1)
  /\ last.op = "create" => (history = <<cfg.initialState>> /\ currentPointer = 0)

\* the last n entries of a sequence
LastN(seq, n) == IF Len(seq) > n THEN SubSeq(seq, Len(seq) - n + 1, Len(seq)) ELSE seq

\* C5: the history never holds more than maxHistory entries; a recorded
\* write appends the new state to the entries up to the cursor, keeps the
\* maxHistory most recent of them in order (the oldest is evicted first), and
\* puts the cursor on the last index.
C5_Eviction ==
  [][ /\ Len(history) <= cfg.maxHistory
      /\ Len(history') <= cfg.maxHistory
      /\ (last'.op = "action" /\ cfg.enabled)
         => LET upToCursor == SubSeq(history, 1, currentPointer + 1)
                recorded == [k \in DOMAIN state |->
                               IF k \in DOMAIN PartialOf(last', state)
                               THEN PartialOf(last', state)[k] ELSE state[k]]
            IN  /\ history' = LastN(Append(upToCursor, recorded), cfg.maxHistory)
                /\ currentPointer' = Len(history') - 1 ]_vars

\* maxHistory = 3: a fourth recorded write has evicted the oldest entry
C5_Witness ==
  /\ last.op = "action"
  /\ cfg.enabled
  /\ cfg.maxHistory = 3
  /\ Len(history) = 3
  /\ currentPointer = 2
  /\ \E n \in 1..Len(effects) : effects[n].e = "shift"
  /\ history[3] = state

----------------------------------------------------------------------------
(* Claims about computed values (SpecComputed) *)

\* the keys whose value differs between two snapshots
Changed(s, t) == {k \in DOMAIN t : s[k] # t[k]}

\* the computed keys reached from a set of keys over the declared dependencies
RECURSIVE Reached(_)
Reached(S) ==
  LET more == {c \in ComputedKeys : DepsOf(c) \cap S # {}}
  IN  IF more \subseteq S THEN S ELSE Reached(S \cup more)

\* how often the function of computed key k ran in a list of effects
Ran(eff, k) == Cardinality({n \in 1..Len(eff) : eff[n] = Effect("compute", k)})

\* C6: when a write changes a state key, every computed declaring that key
\* becomes stale, and so does every computed that declares a dependency on a
\* computed that became stale.
C6_TransitiveInvalidation ==
  [][ last'.op = "action"
      => \A c \in ComputedKeys :
           c \in Reached(Changed(state, state')) => ~isUpToDate'[c] ]_vars

\* C7: a fresh computed with declared dependencies stays fresh, with its
\* cached value, over a write that changes only keys outside its transitive
\* dependencies, and the write runs no computed function; the next read of a
\* fresh computed returns the cached value without running its function.
C7_UnrelatedWriteKeepsCache ==
  [][ /\ IsWrite(last'.op)
         => /\ \A c \in ComputedKeys : Ran(effects', c) = 0
            /\ \A c \in ComputedKeys :
                 ( /\ DepsOf(c) # {}
                   /\ isUpToDate[c]
                   /\ c \notin Reached(Changed(state, state')) )
                 => (isUpToDate'[c] /\ cache'[c] = cache[c])
      /\ (last'.op = "read" /\ isUpToDate[last'.key])
         => /\ \A c \in ComputedKeys : Ran(effects', c) = 0
            /\ result' = Value(cache[last'.key]) ]_vars

\* an action has changed text alone; doubled and combinedValue are still fresh
C7_Witness ==
  /\ last.op = "action"
  /\ last.payload.kind = "partial"
  /\ DOMAIN last.payload.partial = {"text"}
  /\ effects = <<Effect("assign", "")>>
  /\ isUpToDate["doubled"]
  /\ isUpToDate["combinedValue"]
  /\ ~isUpToDate["message"]
  /\ cache["combinedValue"] = 2 * state.count + state.count * state.count * state.multiplier

\* C8: a computed declared without dependencies is stale after every
\* committed write that changed a state key.
C8_NoDepsAlwaysInvalidated ==
  [][ (last'.op = "action" /\ Changed(state, state') # {})
      => \A c \in ComputedKeys : DepsOf(c) = {} => ~isUpToDate'[c] ]_vars

\* what the function of a computed key returns on the current state, given
\* that combinedValue takes doubled and squared from the cache when they are
\* fresh
FnValue(k) ==
  IF k = "doubled" THEN 2 * state.count
  ELSE IF k = "squared" THEN state.count * state.count
  ELSE IF k = "message" THEN Template(state.text, state.count)
  ELSE (IF isUpToDate["doubled"] THEN cache["doubled"] ELSE 2 * state.count)
         + (IF isUpToDate["squared"] THEN cache["squared"]
            ELSE state.count * state.count) * state.multiplier

\* C9: every entry is stale at creation and no function runs before a read;
\* reading a stale entry runs its function exactly once on the current state,
\* stores the result and marks the entry fresh; reading a fresh entry runs no
\* function and returns the cached value.
C9_LazyMemoized ==
  [][ /\ last.op = "create" => \A c \in ComputedKeys : ~isUpToDate[c]
      /\ last'.op \notin {"read", "recompute", "recomputeAll", "getStateWithComputed"}
         => \A c \in ComputedKeys : Ran(effects', c) = 0
      /\ last'.op = "read"
         => LET k == last'.key
            IN  IF isUpToDate[k]
                THEN /\ effects' = <<>>
                     /\ result' = Value(cache[k])
                     /\ cache' = cache
                     /\ isUpToDate' = isUpToDate
                ELSE /\ Ran(effects', k) = 1
                     /\ result' = Value(FnValue(k))
                     /\ cache'[k] = FnValue(k)
                     /\ isUpToDate'[k]
                     /\ state' = state ]_vars

\* combinedValue was read from the cache: no function ran
C9_Witness ==
  /\ last.op = "read"
  /\ last.key = "combinedValue"
  /\ effects = <<>>
  /\ isUpToDate["combinedValue"]
  /\ result = Value(cache["combinedValue"])
  /\ cache["combinedValue"] = 2 * state.count + state.count * state.count * state.multiplier

----------------------------------------------------------------------------
(* Claims about persistence (SpecPersist) *)

\* the step runs rehydrate's logic: a rehydrate() call, or the first mount
\* without skipHydration, on a store not yet hydrated
RunsRehydrate ==
  /\ ~isHydrated
  /\ \/ last'.op = "rehydrate"
     \/ last'.op = "mount" /\ ~isMounted /\ ~cfg.skipHydration

\* C10: when rehydrate runs (on a store not yet hydrated) and storage holds a
\* record with the configured version and state P, then afterwards every key
\* k of the live state has P[k] if k is in P and otherwise the store's
\* original initial value of k, whatever was written before; and the
\* post-hydration callback is invoked once, with that state.
C10_RoundTripMergesOverInitial ==
  [][ ( /\ RunsRehydrate
        /\ storage[cfg.name].kind = "json"
        /\ storage[cfg.name].version = cfg.version )
      => LET P == storage[cfg.name].state
         IN  /\ DOMAIN state' = DOMAIN cfg.initialState \cup DOMAIN P
             /\ \A k \in DOMAIN state' :
                   state'[k] = IF k \in DOMAIN P THEN P[k] ELSE cfg.initialState[k]
             /\ cbLog' = <<Called(state')>>
             /\ isHydrated' ]_vars

\* a record {count: 2} at the configured version was rehydrated into a store
\* that is not mounted: count is the record's, text is the initial one
C10_Witness ==
  /\ last.op = "rehydrate"
  /\ ~isMounted
  /\ storage[cfg.name].kind = "json"
  /\ storage[cfg.name].version = cfg.version
  /\ DOMAIN storage[cfg.name].state = {"count"}
  /\ cbLog = <<Called(state)>>
  /\ state.count = 2
  /\ state.text = cfg.initialState.text
  /\ state.increase = Fn

----------------------------------------------------------------------------
(* Claims about migration and failures of rehydrate (SpecMigrate) *)

\* how often migrate was invoked in a list of effects
Migrations(eff) == Cardinality({n \in 1..Len(eff) : eff[n].e = "migrate"})

\* what the upgrade makes of stored state P that was written at version v
Upgraded(P, v) ==
  [k \in DOMAIN P \cup {"fontSize", "migratedFrom"} |->
     IF k = "fontSize" THEN 16 ELSE IF k = "migratedFrom" THEN v ELSE P[k]]

\* C11: when rehydrate runs and reads a record, migrate is invoked (once, with
\* the stored state and the stored version) exactly when the stored version
\* differs from the configured one, and its result, not the raw stored
\* state, is merged over the initial state, so the key a migration adds is in
\* the live state; at equal versions migrate is not invoked and the stored
\* state is merged as it is.
C11_MigrateOnVersionMismatch ==
  [][ ( /\ RunsRehydrate
        /\ "getItem" \notin cfg.faults
        /\ storage[cfg.name].kind = "json" )
      => LET item == storage[cfg.name]
             differs == item.version # cfg.version
             M == IF differs /\ cfg.migrate = "upgrade"
                  THEN Upgraded(item.state, item.version)
                  ELSE item.state
         IN  /\ Migrations(effects') = IF differs THEN 1 ELSE 0
             /\ ~(differs /\ cfg.migrate = "throws") =>
                  /\ DOMAIN state' = DOMAIN cfg.initialState \cup DOMAIN M
                  /\ \A k \in DOMAIN state' :
                        state'[k] = IF k \in DOMAIN M THEN M[k]
                                    ELSE cfg.initialState[k] ]_vars

\* a version-0 record {count: 2} was rehydrated by a store at version 1 whose
\* migrate adds fontSize: the live state has fontSize 16 and the record's count
C11_Witness ==
  /\ last.op = "rehydrate"
  /\ ~isMounted
  /\ cfg.migrate = "upgrade"
  /\ storage[cfg.name].kind = "json"
  /\ storage[cfg.name].version = 0
  /\ cfg.version = 1
  /\ DOMAIN storage[cfg.name].state = {"count"}
  /\ Migrations(effects) = 1
  /\ DOMAIN state = {"count", "text", "increase", "fontSize", "migratedFrom"}
  /\ state.fontSize = 16
  /\ state.migratedFrom = 0
  /\ state.count = 2

----------------------------------------------------------------------------
(* Claims about skipHydration and the order of storage reads and writes *)

\* C12: with skipHydration and a record stored before the store was created,
\* mounting does not rehydrate (the live state and hasHydrated() stay as they
\* are), and the first manual rehydrate(), before or after the mount,
\* restores the values of that record into the live state.
C12_SkipHydrationManualRehydrate ==
  [][ ( cfg.skipHydration /\ found.kind = "json" )
      => /\ last'.op = "mount" => ( state' = state /\ isHydrated' = isHydrated )
         /\ ( last'.op = "rehydrate" /\ ~isHydrated )
              => /\ isHydrated'
                 /\ \A k \in DOMAIN found.state : state'[k] = found.state[k] ]_vars

\* C13: no storage write under the store's key happens before the store's
\* rehydration has read the key: whenever an operation writes the item, the
\* store was hydrated before the operation or the operation read the item
\* earlier.
C13_NoWriteBeforeRead ==
  [][ \A n \in 1..Len(effects') :
        effects'[n] = Effect("setItem", cfg.name)
          => \/ isHydrated
             \/ \E m \in 1..(n - 1) : effects'[m] = Effect("getItem", cfg.name) ]_vars

\* C14: while the store is not mounted, a write (public setState, action,
\* hydrate) writes nothing to storage and schedules no save, yet it changes
\* the live state and calls every listener once, in order, with the new
\* state, as the cell of an unpersisted store does; and the mounted flag,
\* once set, stays set.
C14_MountGating ==
  [][ /\ isMounted => isMounted'
      /\ ( ~isMounted /\ IsWrite(last'.op) )
           => LET partialState == PartialOf(last', state)
                  changed == \E k \in DOMAIN partialState : partialState[k] # state[k]
              IN  /\ storage' = storage
                  /\ timers' = timers
                  /\ \A n \in 1..Len(effects') : effects'[n].e # "setItem"
                  /\ ~isMounted'
                  /\ state' = Merge(state, partialState)
                  /\ calls' = IF changed
                              THEN [n \in 1..Len(listeners) |->
                                      [listener |-> listeners[n], state |-> state']]
                              ELSE <<>> ]_vars

\* an unmounted store over a stored record took a public setState that
\* changed text: both listeners saw the new state, the record is untouched
C14_Witness ==
  /\ last.op = "setState"
  /\ ~isMounted
  /\ found.kind = "json"
  /\ storage[cfg.name] = found
  /\ timers = 0
  /\ listeners = <<PERSIST, "l1">>
  /\ calls = <<[listener |-> PERSIST, state |-> state],
               [listener |-> "l1", state |-> state]>>
  /\ state.text = 1

\* the operation replaced the cell's snapshot
Committed(eff) == \E n \in 1..Len(eff) : eff[n].e = "assign"

\* the JSON text of a state without its functions: NaN reads back as null
Serialized(s) ==
  [k \in {j \in DOMAIN s : s[j] # Fn /\ s[j] # Undefined} |->
     IF s[k] = NaN THEN Null ELSE IF s[k] = NegZero THEN 0 ELSE s[k]]

\* C15: once the store is mounted, after every operation that committed a
\* state change (public setState, action, hydrate, a time-travel move, the
\* rehydration write) the item under the configured name is the
\* serialization of the new live state without its functions, at the
\* configured version; and every record the store writes carries that version.
C15_RecordFollowsState ==
  [][ /\ ( isMounted' /\ Committed(effects') )
           => storage'[cfg.name] =
                [kind |-> "json", state |-> Serialized(state'), version |-> cfg.version]
      /\ ( storage'[cfg.name] # storage[cfg.name] /\ storage'[cfg.name].kind = "json" )
           => storage'[cfg.name].version = cfg.version ]_vars

\* the store's own subscription is among the listeners: cleanup() has not
\* been called
Subscribed(ls) == \E n \in 1..Len(ls) : ls[n] = PERSIST

\* C15, amended: once the store is mounted, and for as long as cleanup() has
\* not removed the store's subscription, after every operation that
\* committed a state change the item under the configured name is the
\* serialization of the new live state without its functions, at the
\* configured version; and every record the store writes, forceSave's
\* included, carries that version.
C15_RecordFollowsStateWhileSubscribed ==
  [][ /\ ( isMounted' /\ Committed(effects') /\ Subscribed(listeners) )
           => storage'[cfg.name] =
                [kind |-> "json", state |-> Serialized(state'), version |-> cfg.version]
      /\ ( storage'[cfg.name] # storage[cfg.name] /\ storage'[cfg.name].kind = "json" )
           => storage'[cfg.name].version = cfg.version ]_vars

\* a mounted store went back in its history: the record holds the state the
\* move restored
C15_Witness ==
  /\ last.op = "goBack"
  /\ result = Bool(TRUE)
  /\ isMounted
  /\ Subscribed(listeners)
  /\ Committed(effects)
  /\ state.count = 1
  /\ storage[cfg.name] =
       [kind |-> "json", state |-> [count |-> 1, text |-> 0], version |-> 1]

\* C16: rehydrate runs its logic at most once: hasHydrated() is false until
\* the first rehydrate (manual, or the one of the mount) completes, it is
\* true after every rehydrate() call, whatever the call found, and stays true;
\* and a call on a hydrated store reads no storage, invokes neither migrate
\* nor the callback and leaves the live state and the storage alone, even if
\* the item has changed since.
C16_RehydrateOnce ==
  [][ /\ isHydrated => isHydrated'
      /\ last'.op = "rehydrate" => isHydrated'
      /\ ( ~isHydrated /\ isHydrated' ) => last'.op \in {"rehydrate", "mount"}
      /\ ( last'.op = "rehydrate" /\ isHydrated )
           => /\ effects' = <<>>
              /\ cbLog' = <<>>
              /\ calls' = <<>>
              /\ state' = state /\ ref' = ref
              /\ storage' = storage
              /\ result' = Void ]_vars

\* a second rehydrate() on a store whose item was replaced after the first:
\* nothing was read, the state is not the item's
C16_Witness ==
  /\ last.op = "rehydrate"
  /\ isHydrated
  /\ effects = <<>>
  /\ cbLog = <<>>
  /\ found.kind = "json" /\ found.version = cfg.version
  /\ "count" \in DOMAIN found.state
  /\ storage[cfg.name] = NoItem
  /\ state.count = found.state.count
  /\ state.count # cfg.initialState.count

\* rehydrate finds nothing it can restore: no item, a getItem that throws, an
\* item JSON.parse rejects, or an item at another version and a migrate that throws
NothingToRestore ==
  \/ "getItem" \in cfg.faults
  \/ storage[cfg.name].kind \in {"none", "garbage"}
  \/ /\ storage[cfg.name].kind = "json"
     /\ storage[cfg.name].version # cfg.version
     /\ cfg.migrate = "throws"

\* C17: when rehydrate runs and finds no item, or the storage read, the JSON
\* parse or migrate throws, hydration is marked complete, the callback is
\* invoked once, with undefined, the live state is left as it was with no
\* listener called, and the call returns normally; no later operation reads
\* the item again.
C17_FailedRehydrateCompletes ==
  [][ /\ ( RunsRehydrate /\ NothingToRestore )
           => /\ isHydrated'
              /\ cbLog' = <<CalledUndefined>>
              /\ state' = state /\ ref' = ref
              /\ calls' = <<>>
              /\ result' = Void
      /\ isHydrated => \A n \in 1..Len(effects') : effects'[n].e # "getItem" ]_vars

\* a version-0 record met a migrate that throws: hydrated, callback called
\* with undefined, state still the initial one
C17_Witness ==
  /\ last.op = "rehydrate"
  /\ cfg.migrate = "throws"
  /\ cfg.faults = {}
  /\ ~isMounted
  /\ storage[cfg.name].kind = "json"
  /\ storage[cfg.name].version # cfg.version
  /\ Migrations(effects) = 1
  /\ cbLog = <<CalledUndefined>>
  /\ isHydrated
  /\ result = Void
  /\ state = cfg.initialState

----------------------------------------------------------------------------
(* Claims about a storage that fails on save (SpecFaulty) *)

\* C18: when partialize, the serialization or setItem throws while a mounted
\* store saves, the write that triggered the save still completes: the live
\* state is the merged state, every listener is called once, in order, with
\* it, the call returns normally, and the item in storage is left as it was;
\* the saves of the mount and of the backup timer fail as quietly.
C18_SaveFailureIsSilent ==
  [][ ( cfg.faults # {} /\ isMounted' )
      => /\ storage' = storage
         /\ result' = Void
         /\ IsWrite(last'.op)
              => LET partialState == PartialOf(last', state)
                     changed == \E k \in DOMAIN partialState : partialState[k] # state[k]
                 IN  /\ state' = Merge(state, partialState)
                     /\ calls' = IF changed
                                 THEN [n \in 1..Len(listeners) |->
                                         [listener |-> listeners[n], state |-> state']]
                                 ELSE <<>> ]_vars

\* setItem throws under a mounted store with a second listener: a public
\* setState changed text, the save was attempted and failed, the listener
\* registered after the store's own was still called, the item is the old one
C18_Witness ==
  /\ last.op = "setState"
  /\ isMounted
  /\ cfg.faults = {"setItem"}
  /\ \E n \in 1..Len(effects) : effects[n] = Effect("caught", cfg.name)
  /\ listeners = <<PERSIST, "l1">>
  /\ calls = <<[listener |-> PERSIST, state |-> state],
               [listener |-> "l1", state |-> state]>>
  /\ state.text = 1
  /\ result = Void
  /\ found.kind = "json"
  /\ storage[cfg.name] = found

----------------------------------------------------------------------------
(* Claims about the order of the write path (SpecStack) *)

\* C19: a write made through the store's public setState passes through the
\* write wrapper of every middleware before it reaches the cell: with
\* time-travel and computed installed, a public setState that changes the
\* state is recorded as the newest history entry, with the cursor on it, and
\* leaves every computed that depends on a changed key stale.
C19_PublicSetStateThroughMiddleware ==
  [][ ( last'.op = "setState" /\ state' # state )
      => /\ Len(history') >= 1
         /\ currentPointer' = Len(history') - 1
         /\ history'[Len(history')] = state'
         /\ \A c \in ComputedKeys :
              DepsOf(c) \cap Changed(state, state') # {} => ~isUpToDate'[c] ]_vars

\* C20: for a write made through the middleware-wrapped set (an action),
\* computed invalidation and history recording take effect before the cell
\* commits and notifies: a listener called for that write that reads a
\* computed value depending on the changed key obtains the value computed
\* from the new state, and sees the new state as the newest history entry
\* with the cursor on it.
C20_MiddlewareActsBeforeNotify ==
  [][ last'.op = "action"
      => \A n \in 1..Len(effects') :
           effects'[n].e = "saw"
             => /\ effects'[n].v = 2 * state'.count
                /\ Len(effects'[n].history) >= 1
                /\ effects'[n].currentPointer = Len(effects'[n].history) - 1
                /\ effects'[n].history[Len(effects'[n].history)] = state' ]_vars

----------------------------------------------------------------------------
(* Claims about composition (SpecCompose) *)

Has(list, m) == \E n \in 1..Len(list) : list[n] = m

Without(list, m) == SelectSeq(list, LAMBDA x : x # m)

\* C21: a middleware that throws while it is applied is skipped and the rest
\* of the list is still composed: the store is the one built from the list
\* without it, so with time-travel elsewhere in the list an action is
\* recorded as the newest history entry, and with computed elsewhere in the
\* list an action that changes count leaves doubled stale.
C21_BrokenMiddlewareSkipped ==
  [][ ( Has(cfg.middleware, "broken") /\ ~Has(cfg.middleware, "faulty") )
      => /\ cfg.applied = Without(cfg.middleware, "broken")
         /\ ( last'.op = "action" /\ Has(cfg.middleware, "timeTravel") )
              => /\ Len(history') >= 1
                 /\ currentPointer' = Len(history') - 1
                 /\ history'[Len(history')] = state'
         /\ ( last'.op = "action" /\ Has(cfg.middleware, "computed")
                /\ state'.count # state.count )
              => ~isUpToDate'["doubled"] ]_vars

\* built from [timeTravel, broken, computed]: an action was recorded and
\* made the doubled read before it stale
C21_Witness ==
  /\ cfg.middleware = <<"timeTravel", "broken", "computed">>
  /\ last.op = "action"
  /\ history = <<state>>
  /\ state.count = 1
  /\ cache["doubled"] = 0
  /\ ~isUpToDate["doubled"]

\* C22: when the composed creator throws on its first invocation, the store
\* is built from the base creator alone: createStore returns normally,
\* getState() is the base creator's result with no field added by a
\* middleware, and the creator's actions write straight to the cell, so
\* nothing is ever recorded.
C22_FallbackToBaseCreator ==
  Has(cfg.middleware, "faulty")
    => /\ cfg.applied = <<>>
       /\ StoreFields(World) = DOMAIN cfg.initialState
       /\ last.op = "create" => ( state = cfg.initialState /\ result = Void )
       /\ history = <<>> /\ currentPointer = -1

\* built from [timeTravel, faulty]: an action changed the state, unrecorded
C22_Witness ==
  /\ cfg.middleware = <<"timeTravel", "faulty">>
  /\ last.op = "action"
  /\ state.count = 1
  /\ history = <<>>
  /\ ~HasField("_timeTravel")

----------------------------------------------------------------------------
(* Claims about subscriptions (Spec) *)

Registered(ls) == {ls[n] : n \in 1..Len(ls)}

\* how many registrations of listener l the store holds
Registrations(ls, l) == Cardinality({n \in 1..Len(ls) : ls[n] = l})

\* C23: every subscribe call creates a registration of its own, also for a
\* function that is already subscribed (so that the function is then called
\* once per registration), and an unsubscribe removes one registration only.
C23_IndependentRegistrations ==
  [][ /\ last'.op = "subscribe"
           => Registrations(listeners', last'.key) = Registrations(listeners, last'.key) + 1
      /\ last'.op = "unsubscribe"
           => Registrations(listeners', last'.key) >= Registrations(listeners, last'.key) - 1 ]_vars

\* C24: the function subscribe returned removes exactly its listener: the
\* other listeners stay registered in their order, a second call changes
\* nothing, and a write calls only listeners that are registered when it is
\* made, so a removed listener is not called again.
C24_UnsubscribeRemovesExactlyThat ==
  [][ /\ last'.op = "unsubscribe"
           => /\ Registered(listeners') = Registered(listeners) \ {last'.key}
              /\ Len(listeners') = Cardinality(Registered(listeners'))
              /\ \A i, j \in 1..Len(listeners') :
                   i < j => \E a, b \in 1..Len(listeners) :
                              /\ a < b
                              /\ listeners[a] = listeners'[i]
                              /\ listeners[b] = listeners'[j]
              /\ last'.key \notin Registered(listeners) => listeners' = listeners
      /\ IsWrite(last'.op)
           => /\ listeners' = listeners
              /\ \A n \in 1..Len(calls') : calls'[n].listener \in Registered(listeners) ]_vars

\* l1 was removed by its unsubscribe; l3 and l2 are still there, in their order
C24_Witness ==
  /\ last.op = "unsubscribe"
  /\ last.key = "l1"
  /\ result = Bool(TRUE)
  /\ listeners = <<"l3", "l2">>

----------------------------------------------------------------------------
(* Claims about travel operations (SpecTravel) *)

\* the travel operation of the step has nowhere to go
CannotMove ==
  \/ last'.op = "goBack" /\ currentPointer <= 0
  \/ last'.op = "goForward" /\ currentPointer >= Len(history) - 1
  \/ last'.op = "jumpToState" /\ ( last'.n < 0 \/ last'.n >= Len(history) )

\* C25: goBack with the cursor at 0 or below, goForward with the cursor on
\* the last entry and jumpToState with an index outside the history return
\* false and leave the cursor, the history and the live state as they were,
\* calling no listener.
C25_FailedTravelHasNoEffect ==
  [][ CannotMove
      => /\ result' = Bool(FALSE)
         /\ currentPointer' = currentPointer
         /\ history' = history
         /\ state' = state /\ ref' = ref
         /\ calls' = <<>> ]_vars

\* goBack on the first entry of a store whose live state a public setState
\* moved away from that entry: false, and the listener was not called
C25_Witness ==
  /\ last.op = "goBack"
  /\ result = Bool(FALSE)
  /\ currentPointer = 0
  /\ Len(history) = 2
  /\ state # history[1]
  /\ listeners = <<"l1">>
  /\ calls = <<>>

\* the travel operation of the step has somewhere to go, and this is where
Target ==
  IF last'.op = "goBack" /\ currentPointer > 0 THEN currentPointer - 1
  ELSE IF last'.op = "goForward" /\ currentPointer < Len(history) - 1
  THEN currentPointer + 1
  ELSE IF last'.op = "jumpToState" /\ last'.n >= 0 /\ last'.n < Len(history)
  THEN last'.n
  ELSE -1

\* C26: goBack with the cursor above 0, goForward with the cursor below the
\* last entry and jumpToState with an index inside the history return true,
\* move the cursor there and leave the live state equal to the entry under
\* it; so after three writes from the initial state, one goBack gives the
\* state after the second write (the fourth step of the travel test) and
\* jumpToState(0) gives the initial state (its seventh step).
C26_TravelMoves ==
  [][ /\ Target >= 0
           => /\ result' = Bool(TRUE)
              /\ currentPointer' = Target
              /\ history' = history
              /\ state' = history[Target + 1]
      /\ Len(written') = 4 => state' = written'[2]
      /\ Len(written') = 7 => state' = cfg.initialState ]_vars

\* C27: clearHistory leaves a history of exactly one entry, the current live
\* state, whether or not that is the entry the cursor was on; the cursor
\* becomes 0 and the live state is not changed.
C27_ClearHistoryKeepsLiveState ==
  [][ last'.op = "clearHistory"
      => /\ history' = <<state>>
         /\ currentPointer' = 0
         /\ state' = state /\ ref' = ref ]_vars

----------------------------------------------------------------------------
(* Claims: the enabled option (SpecDisabled) *)

\* C28: with enabled = false no write changes the history or the cursor,
\* which stay as construction left them, and every write changes the live
\* state and calls the listeners exactly as the cell's own setState does.
C28_DisabledRecordsNothing ==
  [][ IsWrite(last'.op)
      => /\ history' = history /\ currentPointer' = currentPointer
         /\ history' = <<>> /\ currentPointer' = -1
         /\ LET plain == CellSetState(Begin, last'.payload)
            IN  /\ state' = plain.state /\ ref' = plain.ref
                /\ calls' = plain.calls ]_vars

C28_Witness ==
  /\ ~cfg.enabled /\ last.op = "action"
  /\ state.count = 1
  /\ calls = <<[listener |-> "l2", state |-> state], [listener |-> "l1", state |-> state]>>
  /\ history = <<>> /\ currentPointer = -1

----------------------------------------------------------------------------
(* Claims: two stores on one storage (SpecPair) *)

\* the last operation was called on the second instance
OnPeer(l) == l.key = OTHERNAME

\* C29: of two store instances with different names on the same storage, no
\* operation of one (write, mount, rehydrate, timer, clearStorage) changes the
\* other's item in the storage, its live state, or its mounted and hydrated flags.
C29_DistinctNamesDoNotInterfere ==
  [][ /\ ~OnPeer(last')
           => /\ storage'[OTHERNAME] = storage[OTHERNAME]
              /\ peer' = peer
      /\ OnPeer(last')
           => /\ storage'[cfg.name] = storage[cfg.name]
              /\ state' = state /\ ref' = ref
              /\ isMounted' = isMounted /\ isHydrated' = isHydrated ]_vars

C29_Witness ==
  /\ last.op = "clearStorage" /\ OnPeer(last)
  /\ isMounted /\ peer.isMounted
  /\ storage[OTHERNAME] = NoItem
  /\ storage[cfg.name] = [kind |-> "json", state |-> [count |-> 1], version |-> 1]
  /\ peer.state = [count |-> 2]

----------------------------------------------------------------------------
(* Claims: persist(store, options) (SpecWrapped) *)

\* C30: on a store wrapped with persist(store, options) and mounted, every
\* operation that commits a state change, an action of the creator included,
\* writes {state: partialize(new state), version} under the configured name.
C30_WrappedStoreSavesEveryChange ==
  [][ ( isMounted /\ Committed(effects') )
      => /\ \E n \in 1..Len(effects') : effects'[n] = Effect("setItem", cfg.name)
         /\ storage'[cfg.name] =
              JsonStringify(Partialize(state'), cfg.version) ]_vars

----------------------------------------------------------------------------
(* Claims: schemaMiddleware (SpecSchema) *)

\* the state a write would produce
Resulting(l, s) == Merge(s, PartialOf(l, s))

\* C31: a write (an action of the creator or a public setState) whose
\* resulting full state fails validation calls onError with the errors; with
\* strict = true it leaves the live state as it was and calls no listener,
\* with strict = false it is committed all the same. A write whose resulting
\* state is valid calls no onError and is committed.
C31_StrictBlocksInvalidWrites ==
  [][ ( IsWrite(last'.op) /\ cfg.onError )
      => LET errors == ValidateState(Resulting(last', state))
         IN  /\ ( Len(errors) > 0 /\ cfg.strict )
                  => /\ errLog' = <<errors>>
                     /\ state' = state /\ ref' = ref
                     /\ calls' = <<>>
             /\ ( Len(errors) > 0 /\ ~cfg.strict )
                  => /\ errLog' = <<errors>>
                     /\ state' = Resulting(last', state)
             /\ Len(errors) = 0
                  => /\ errLog' = <<>>
                     /\ state' = Resulting(last', state) ]_vars

----------------------------------------------------------------------------
(* Claims: what getHistory returns (SpecTravel) *)

\* the entries of a getHistory() result that are flagged active
ActiveIn(h) == {index \in 1..Len(h) : h[index].active}

\* C32: in every reachable state of a store with time-travel, getHistory()
\* returns all the history entries in order and exactly one of them has
\* active = true, the one at index getCurrentIndex().
C32_ExactlyOneActiveEntry ==
  LET h == GetHistory(World)
  IN  /\ Len(h) = Len(history)
      /\ \A index \in 1..Len(h) : h[index].state = history[index]
      /\ ActiveIn(h) = {GetCurrentIndex(World) + 1}

\* the same, from the first recorded write on
C32_OneActiveOnceRecorded ==
  Len(history) > 0 => C32_ExactlyOneActiveEntry

----------------------------------------------------------------------------
(* Claims: travel operations and the history (SpecTravel) *)

IsTravel(op) == op \in {"goBack", "goForward", "jumpToState"}

\* C33: goBack, goForward and jumpToState, whether they succeed or fail,
\* leave the history as it was, entry by entry: the write they make on the
\* cell is not recorded, nothing is cut or evicted, and besides the cursor
\* and the live state nothing of the store changes.
C33_TravelLeavesHistoryAlone ==
  [][ IsTravel(last'.op)
      => /\ history' = history
         /\ \A n \in 1..Len(effects') : effects'[n].e \notin {"splice", "shift"}
         /\ listeners' = listeners
         /\ isTimeTraveling' = isTimeTraveling ]_vars

\* a goBack that moved from the third of three entries to the second
C33_Witness ==
  /\ last.op = "goBack" /\ result = Bool(TRUE)
  /\ Len(history) = 3 /\ currentPointer = 1
  /\ state = history[2] /\ state # history[3]
  /\ Committed(effects)

----------------------------------------------------------------------------
(* Claims: how often one write is saved (SpecGate) *)

\* the storage writes an operation made
SetItems(eff) == Cardinality({n \in 1..Len(eff) : eff[n].e = "setItem"})

\* C34: a state-changing public setState on a mounted createPersistStore
\* store is saved exactly once, counting the write its subscription makes
\* during the call together with the write its deferred timer makes when
\* it runs.
C34_SavedExactlyOnce ==
  [][ ( /\ last.op = "setState" /\ Committed(effects) /\ isMounted
        /\ last'.op = "timer" )
      => SetItems(effects) + SetItems(effects') = 1 ]_vars

----------------------------------------------------------------------------
(* Claims: the history and the live state (SpecGuarded) *)

\* C35: with time-travel enabled, once a write has been recorded the history
\* entry under the cursor equals the live state between operations, whatever
\* actions (no-op ones and ones a strict schema rejects included), public
\* setState calls, hydrate calls and travel operations were made.
C35_CursorEntryIsLiveState ==
  Len(history) > 0 => history[currentPointer + 1] = state

----------------------------------------------------------------------------
(* Claims: the computed cache and the live state (SpecStack) *)

\* C36: in every reachable state, after any interleaving of actions, public
\* setState calls and time-travel moves, with computed listed before or
\* after time-travel, reading a computed whose function reads only its
\* declared dependencies returns the function applied to the live state.
C36_ComputedReadIsCurrent ==
  \A key \in ComputedKeys :
    Compute(World, key).v = ComputedFn(key, World).v

----------------------------------------------------------------------------
(* Claims: no-op writes and the history (SpecTravel) *)

\* C37: an action's write that changes nothing on the cell (every key of its
\* partial is Object.is-equal to the current value) leaves the history and
\* the cursor as they were; the history gains an entry, and the entries after
\* the cursor are dropped, only when the live state changes.
C37_NoOpWriteNotRecorded ==
  [][ last'.op = "action"
      => /\ ~HasChanged(state, PartialOf(last', state))
              => history' = history /\ currentPointer' = currentPointer
         /\ history' # history => state' # state ]_vars

----------------------------------------------------------------------------
(* Claims: the reentrancy guard (SpecThrowing) *)

\* C38: whenever no goBack, goForward or jumpToState is executing the
\* reentrancy guard is down, also after a travel operation whose write threw
\* because a listener threw; so every action write made while time-travel is
\* enabled and no travel operation runs is recorded in the history.
C38_GuardDownBetweenOperations ==
  [][ /\ ~isTimeTraveling'
      /\ ( last'.op = "action" /\ cfg.enabled )
           => /\ Len(history') > 0
              /\ history'[Len(history')] = Resulting(last', state) ]_vars

----------------------------------------------------------------------------
(* Claims: how often onRehydrateStorage is called (SpecCallback) *)

\* C39: over any number of rehydrate() calls on one store the
\* onRehydrateStorage callback is invoked at most once, whether the record is
\* absent, valid or unparsable, and also when the callback throws: one
\* operation invokes it at most once, an invocation leaves the store
\* hydrated, and a hydrated store never invokes it again.
C39_CallbackAtMostOnce ==
  [][ /\ Len(cbLog') <= 1
      /\ Len(cbLog') > 0 => isHydrated'
      /\ isHydrated => cbLog' = <<>> ]_vars

----------------------------------------------------------------------------
(* Claims: what listeners see during rehydration (SpecWatched) *)

\* C40: in a rehydrate that succeeds, hydration is marked complete before
\* the restored state is written: every listener the rehydration write
\* notifies reads hasHydrated() = true, none reads false.
C40_HydratedBeforeRestoreWrite ==
  [][ last'.op \in {"rehydrate", "mount"}
      => \A n \in 1..Len(effects') :
           effects'[n].e = "hasHydrated" => effects'[n].k = "true" ]_vars

\* a manual rehydrate restored count 2 and the listener was told of it
C40_Witness ==
  /\ last.op = "rehydrate"
  /\ Committed(effects) /\ state.count = 2
  /\ \E n \in 1..Len(calls) : calls[n].listener = WATCHER
  /\ \E n \in 1..Len(effects) : effects[n] = Effect("hasHydrated", "true")
  /\ isHydrated

====
